---- MODULE Spec2Model ----
(***************************************************************************)
(* Model of main.py: routes and minimum spanning trees over urban graphs.  *)
(*                                                                         *)
(* A graph (the MultiDiGraph that osmnx returns) is a record               *)
(*   [tag |-> "Graph", nodes |-> <sequence of node ids, insertion order>,  *)
(*    edges |-> <set of <<u, v, key, length>>>]                            *)
(* with at most one length per (u, v, key).  Python's None is the record   *)
(* NoneGraph / NoneRuta.  The two GUI handlers (calcular_ruta,             *)
(* graficar_resultados) and a direct call of medir_promedio_tiempo are the *)
(* actions; the variables are the locals of the latest invocation plus     *)
(* what it showed (dialogs, figures) and what it invoked (llamadas).       *)
(***************************************************************************)
EXTENDS Integers, Sequences, FiniteSets, TLC

VARIABLES handler, proveedor, Start, origen, destino, ruta, mst,
          tamanos, tiempos_dijkstra, tiempos_prim, subgrafos,
          medida, dialogs, figuras, llamadas, excepcion

vars == <<handler, proveedor, Start, origen, destino, ruta, mst,
          tamanos, tiempos_dijkstra, tiempos_prim, subgrafos,
          medida, dialogs, figuras, llamadas, excepcion>>

(* ------------------------------ bounds --------------------------------- *)

\* Edge lengths of the small graphs range over 0..MaxWeight.
MaxWeight == 1

\* The stores handed to the benchmark have 1..MaxNodes nodes.
MaxNodes == 105

\* One invocation of a measured function lasts 1..MaxTick clock ticks.
MaxTick == 2

\* A direct call of medir_promedio_tiempo passes -MaxReps..MaxReps.
MaxReps == 3

(* ------------------------- program constants --------------------------- *)

RangeStart == 10
RangeStop == 100
RangeStep == 10
RepeticionesDefault == 5

(* ------------------------------ helpers -------------------------------- *)

Min(a, b) == IF a <= b THEN a ELSE b

SetMin(S) == CHOOSE x \in S : \A y \in S : x <= y

RECURSIVE SumSeq(_)
SumSeq(s) == IF s = <<>> THEN 0 ELSE s[1] + SumSeq(Tail(s))

SeqToSet(s) == {s[i] : i \in DOMAIN s}

\* Position of node n in the graph's node order (dict insertion order).
Pos(G, n) == CHOOSE i \in DOMAIN G.nodes : G.nodes[i] = n

NoneGraph == [tag |-> "None", nodes |-> <<>>, edges |-> {}]

NoneRuta == [tag |-> "None", nodes |-> <<>>]

(* --------------------- ruta_optima_dijkstra ---------------------------- *)

\* networkx's weight function on a multigraph: the smallest 'length' among
\* the parallel edges u -> v.
EdgeLength(G, u, v) == SetMin({e[4] : e \in {x \in G.edges : x[1] = u /\ x[2] = v}})

Successors(G, u) == {e[2] : e \in {x \in G.edges : x[1] = u}}

\* Dijkstra's bookkeeping: one label <<node, distance, predecessor>> per
\* node seen so far (the origin is its own predecessor).
LabelOf(labels, n) == CHOOSE l \in labels : l[1] = n

RECURSIVE PathTo(_, _)
PathTo(labels, n) ==
  LET l == LabelOf(labels, n)
  IN IF l[3] = n THEN <<n>> ELSE Append(PathTo(labels, l[3]), n)

\* Faulty variant of Relax: a label, once given, is never improved.
RelaxOnlyUnseen(G, v, dv, labels, done) ==
  LET seen == {l[1] : l \in labels}
      better == {n \in Successors(G, v) \ done : n \notin seen}
  IN {l \in labels : l[1] \notin better}
       \cup {<<n, dv + EdgeLength(G, v, n), v>> : n \in better}

\* Relaxation of the edges leaving v, finalised at distance dv: a neighbour
\* not finalised gets the label through v when it is unseen or when the
\* way through v is strictly shorter.
Relax(G, v, dv, labels, done) ==
  LET seen == {l[1] : l \in labels}
      better == {n \in Successors(G, v) \ done :
                   \/ n \notin seen
                   \/ dv + EdgeLength(G, v, n) < LabelOf(labels, n)[2]}
  IN {l \in labels : l[1] \notin better}
       \cup {<<n, dv + EdgeLength(G, v, n), v>> : n \in better}

\* Dijkstra's loop.  The closest node of the fringe (seen, not finalised)
\* is finalised next, ties going to the earlier node of the graph's
\* order; the search ends when that node is the destination, and with
\* NetworkXNoPath when the fringe is empty.
RECURSIVE DijkstraLoop(_, _, _, _)
DijkstraLoop(G, dest, labels, done) ==
  LET fringe == {l \in labels : l[1] \notin done}
  IN IF fringe = {} THEN [tag |-> "NetworkXNoPath", nodes |-> <<>>]
     ELSE LET d == SetMin({l[2] : l \in fringe})
              p == SetMin({Pos(G, l[1]) : l \in {x \in fringe : x[2] = d}})
              v == G.nodes[p]
          IN IF v = dest THEN [tag |-> "Path", nodes |-> PathTo(labels, v)]
             ELSE DijkstraLoop(G, dest, Relax(G, v, d, labels, done), done \cup {v})

\* nx.shortest_path(Start, origen, destino, weight='length'): the path, or
\* the exception NetworkXNoPath.
shortest_path(G, o, d) ==
  DijkstraLoop(G, d, {<<o, 0, o>>}, {})

\* Faulty variant of ruta_optima_dijkstra: the exception is not caught.
ruta_sin_except(G, o, d) == shortest_path(G, o, d)

\* try: return nx.shortest_path(...)  except nx.NetworkXNoPath: return None

ruta_optima_dijkstra(G, o, d) ==
  LET r == shortest_path(G, o, d)
  IN IF r.tag = "NetworkXNoPath" THEN NoneRuta ELSE r

(* ------------------- arbol_expansion_minima_prim ----------------------- *)

EdgeKeys(G) == {<<e[1], e[2], e[3]>> : e \in G.edges}

LengthOf(G, u, v, k) ==
  LET e == CHOOSE x \in G.edges : x[1] = u /\ x[2] = v /\ x[3] = k IN e[4]

\* MultiDiGraph.to_undirected(): every directed edge (u, v, key, data) is
\* added to a MultiGraph, sources in node order.  The undirected edge is
\* identified by the unordered pair and the key, so v -> u with the key of
\* u -> v is the same edge and its data overwrites what was stored: the
\* direction whose source comes later in the node order is the one kept.
to_undirected(G) ==
  LET canon == {IF Pos(G, t[1]) <= Pos(G, t[2]) THEN t ELSE <<t[2], t[1], t[3]>> :
                  t \in EdgeKeys(G)}
  IN [tag |-> "Graph", nodes |-> G.nodes,
      edges |-> {<<c[1], c[2], c[3],
                   IF <<c[2], c[1], c[3]>> \in EdgeKeys(G)
                   THEN LengthOf(G, c[2], c[1], c[3])
                   ELSE LengthOf(G, c[1], c[2], c[3])>> : c \in canon}]

\* Kruskal's order: the shortest edge first, ties in the order G.edges
\* lists them (first node, second node, key).
FirstEdge(G, rest) ==
  LET w == SetMin({e[4] : e \in rest})
      A == {e \in rest : e[4] = w}
      p1 == SetMin({Pos(G, e[1]) : e \in A})
      B == {e \in A : Pos(G, e[1]) = p1}
      p2 == SetMin({Pos(G, e[2]) : e \in B})
      C == {e \in B : Pos(G, e[2]) = p2}
      k == SetMin({e[3] : e \in C})
  IN CHOOSE e \in C : e[3] = k

\* Union-find, kept as the set of subtrees (sets of nodes): the edge is
\* taken when its ends lie in two different subtrees, which then merge.
SubtreeOf(parts, n) == CHOOSE P \in parts : n \in P

\* Faulty variant of Joins: every edge is taken.
JoinsAlways(parts, e) == TRUE

Joins(parts, e) == SubtreeOf(parts, e[1]) # SubtreeOf(parts, e[2])

Union(parts, e) ==
  LET A == SubtreeOf(parts, e[1])
      B == SubtreeOf(parts, e[2])
  IN (parts \ {A, B}) \cup {A \cup B}

RECURSIVE KruskalLoop(_, _, _, _)
KruskalLoop(G, rest, parts, tree) ==
  IF rest = {} THEN tree
  ELSE LET e == FirstEdge(G, rest)
       IN IF Joins(parts, e)
          THEN KruskalLoop(G, rest \ {e}, Union(parts, e), tree \cup {e})
          ELSE KruskalLoop(G, rest \ {e}, parts, tree)

\* nx.minimum_spanning_tree(G, weight='length') (Kruskal, networkx's
\* default): a graph on all the nodes of G with the chosen edges.
minimum_spanning_tree(G) ==
  [tag |-> "Graph", nodes |-> G.nodes,
   edges |-> KruskalLoop(G, G.edges, {{n} : n \in SeqToSet(G.nodes)}, {})]

\* The graphs of osmnx are directed, so the projection is always taken.
arbol_expansion_minima_prim(G) ==
  minimum_spanning_tree(to_undirected(G))

(* ----------------------- medir_promedio_tiempo ------------------------- *)

\* range(n) of Python: 0 iterations when n <= 0.
RangeLen(start, stop, step) ==
  IF stop > start THEN ((stop - start - 1) \div step) + 1 ELSE 0

Range(start, stop, step) ==
  [k \in 1..RangeLen(start, stop, step) |-> start + (k - 1) * step]

\* The loop calls funcion once per iteration and appends the elapsed time
\* (durs[j] ticks for the j-th call); the mean is sum(tiempos)/len(tiempos),
\* kept as the pair suma/cuenta.  With no iteration the division raises
\* ZeroDivisionError.
medir_promedio_tiempo(durs, repeticiones) ==
  LET tiempos == [j \in 1..RangeLen(0, repeticiones, 1) |-> durs[j]]
  IN IF Len(tiempos) = 0
     THEN [status |-> "ZeroDivisionError", invocaciones |-> Len(tiempos),
           tiempos |-> tiempos, suma |-> 0, cuenta |-> 0]
     ELSE [status |-> "ok", invocaciones |-> Len(tiempos),
           tiempos |-> tiempos, suma |-> SumSeq(tiempos), cuenta |-> Len(tiempos)]

(* --------------------- medir_tiempos_de_ejecucion ---------------------- *)

\* nodos[:i]
Prefix(s, i) == SubSeq(s, 1, Min(i, Len(s)))

\* Start.subgraph(ns): the nodes of ns in Start's order, the edges between them.
Subgraph(G, ns) ==
  [tag |-> "Graph", nodes |-> ns,
   edges |-> {e \in G.edges : e[1] \in SeqToSet(ns) /\ e[2] \in SeqToSet(ns)}]

EmptySerie ==
  [tamanos |-> <<>>, tiempos_dijkstra |-> <<>>, tiempos_prim |-> <<>>,
   subgrafos |-> <<>>, dijkstra |-> 0, prim |-> 0, medir |-> 0]

\* Faulty variant of Thresholds: the bound len(nodos) is included.
ThresholdsUpToLen(n) == Range(RangeStart, Min(RangeStop, n + 1), RangeStep)

\* range(10, min(100, len(nodos)), 10)
Thresholds(n) == Range(RangeStart, Min(RangeStop, n), RangeStep)

\* One pass of the loop per threshold.  The two measured functions are
\* called RepeticionesDefault times each; what they return is discarded,
\* so only the calls and their durations (td, tp ticks) are recorded.
RECURSIVE SerieLoop(_, _, _, _, _)
SerieLoop(G, is, td, tp, acc) ==
  IF is = <<>> THEN acc
  ELSE LET subgrafo == Subgraph(G, Prefix(G.nodes, is[1]))
       IN IF Len(subgrafo.nodes) < 2
          THEN SerieLoop(G, Tail(is), td, tp, acc)
          ELSE LET md == medir_promedio_tiempo(
                           [j \in 1..RepeticionesDefault |-> td], RepeticionesDefault)
                   mp == medir_promedio_tiempo(
                           [j \in 1..RepeticionesDefault |-> tp], RepeticionesDefault)
               IN SerieLoop(G, Tail(is), td, tp,
                    [tamanos |-> Append(acc.tamanos, Len(subgrafo.nodes)),
                     tiempos_dijkstra |->
                       Append(acc.tiempos_dijkstra, <<md.suma, md.cuenta>>),
                     tiempos_prim |-> Append(acc.tiempos_prim, <<mp.suma, mp.cuenta>>),
                     subgrafos |-> Append(acc.subgrafos, subgrafo.nodes),
                     dijkstra |-> acc.dijkstra + md.invocaciones,
                     prim |-> acc.prim + mp.invocaciones,
                     medir |-> acc.medir + 2])

\* G is what construir_grafo_urbano returned: a graph or None.
medir_tiempos_de_ejecucion(G, td, tp) ==
  IF G.tag = "None" THEN EmptySerie
  ELSE SerieLoop(G, Thresholds(Len(G.nodes)), td, tp, EmptySerie)

(* ------------------------- the map-data provider ----------------------- *)

\* ox.graph_from_place either returns a graph or raises; Causas are the
\* messages of the exceptions.
Causas == {"place not found", "connection error"}

NoLlamado == [estado |-> "no_llamado", causa |-> "", grafo |-> NoneGraph]

Provided(G) == [estado |-> "ok", causa |-> "", grafo |-> G]

Failed(c) == [estado |-> "DataUnavailable", causa |-> c, grafo |-> NoneGraph]

\* Small graphs: three nodes, every ordered pair of distinct nodes joined
\* by no edge or by an edge (key 0) of length 0..MaxWeight, and possibly a
\* second, parallel edge 1 -> 2 (key 1).
NodeOrder == <<1, 2, 3>>

Slots ==
  {<<p[1], p[2], 0>> : p \in {q \in SeqToSet(NodeOrder) \X SeqToSet(NodeOrder) :
                                q[1] # q[2]}}
    \cup {<<1, 2, 1>>}

Absent == 0 - 1

SmallGraphs ==
  {[tag |-> "Graph", nodes |-> NodeOrder,
    edges |-> {<<t[1], t[2], t[3], f[t]>> : t \in {x \in Slots : f[x] # Absent}}] :
     f \in {g \in [Slots -> {Absent} \cup 0..MaxWeight] :
              g[<<1, 2, 0>>] = Absent => g[<<1, 2, 1>>] = Absent}}

\* Stores for the benchmark: n nodes with arbitrary distinct ids, joined
\* in a chain.
StoreNode(k) == 7 * k

BenchStore(n) ==
  [tag |-> "Graph", nodes |-> [k \in 1..n |-> StoreNode(k)],
   edges |-> {<<StoreNode(k), StoreNode(k + 1), 0, 1>> : k \in 1..(n - 1)}]

BenchStores == {BenchStore(n) : n \in 1..MaxNodes}

(* ------------------------------ dialogs -------------------------------- *)

Dialog(tipo, texto, causa) == [tipo |-> tipo, texto |-> texto, causa |-> causa]

\* Faulty variant of construir_grafo_urbano: the failure is swallowed
\* without a dialog.
construir_sin_dialogo(prov) ==
  [Start |-> prov.grafo, dialogs |-> <<>>]

\* construir_grafo_urbano: the graph, or an error dialog and None.
construir_grafo_urbano(prov) ==
  IF prov.estado = "ok"
  THEN [Start |-> prov.grafo, dialogs |-> <<>>]
  ELSE [Start |-> NoneGraph,
        dialogs |-> <<Dialog("error", "No se pudo construir el grafo para la ciudad",
                             prov.causa)>>]

NoLlamadas == [dijkstra |-> 0, prim |-> 0, medir |-> 0, funcion |-> 0]

NoMedida ==
  [status |-> "none", omitido |-> FALSE, repeticiones |-> 0, tiempos |-> <<>>,
   suma |-> 0, cuenta |-> 0]

(* ------------------------------- state --------------------------------- *)

Init ==
  /\ handler = "none"
  /\ proveedor = NoLlamado
  /\ Start = NoneGraph
  /\ origen = 0
  /\ destino = 0
  /\ ruta = NoneRuta
  /\ mst = NoneGraph
  /\ tamanos = <<>>
  /\ tiempos_dijkstra = <<>>
  /\ tiempos_prim = <<>>
  /\ subgrafos = <<>>
  /\ medida = NoMedida
  /\ dialogs = <<>>
  /\ figuras = <<>>
  /\ llamadas = NoLlamadas
  /\ excepcion = "ninguna"

\* A handler starts with fresh locals: what an invocation does not reach
\* keeps its initial value.
RutaLocals(prov, S, o, d, r, m) ==
  /\ handler' = "calcular_ruta"
  /\ proveedor' = prov
  /\ Start' = S
  /\ origen' = o
  /\ destino' = d
  /\ ruta' = r
  /\ mst' = m
  /\ tamanos' = <<>>
  /\ tiempos_dijkstra' = <<>>
  /\ tiempos_prim' = <<>>
  /\ subgrafos' = <<>>
  /\ medida' = NoMedida
  /\ excepcion' = IF r.tag \in {"None", "Path"} THEN "ninguna" ELSE r.tag

\* calcular_ruta, the handler of "Calcular Ruta y MST".  Graphs is what the
\* provider can return; an entry that float() rejects raises ValueError,
\* one it accepts is resolved to some node of the graph by nearest_nodes.
CalcularRuta(Graphs) ==
  \/ /\ RutaLocals(NoLlamado, NoneGraph, 0, 0, NoneRuta, NoneGraph)
     /\ dialogs' = <<Dialog("error", "Debe ingresar una ciudad.", "")>>
     /\ figuras' = <<>>
     /\ llamadas' = NoLlamadas
  \/ \E c \in Causas :
       LET b == construir_grafo_urbano(Failed(c))
       IN /\ RutaLocals(Failed(c), b.Start, 0, 0, NoneRuta, NoneGraph)
          /\ dialogs' = b.dialogs
          /\ figuras' = <<>>
          /\ llamadas' = NoLlamadas
  \/ \E G \in Graphs :
       LET b == construir_grafo_urbano(Provided(G))
       IN /\ RutaLocals(Provided(G), b.Start, 0, 0, NoneRuta, NoneGraph)
          /\ dialogs' = b.dialogs \o
               <<Dialog("error", "Las coordenadas del origen no son validas.", "")>>
          /\ figuras' = <<>>
          /\ llamadas' = NoLlamadas
  \/ \E G \in Graphs : \E o \in SeqToSet(G.nodes) :
       LET b == construir_grafo_urbano(Provided(G))
       IN /\ RutaLocals(Provided(G), b.Start, o, 0, NoneRuta, NoneGraph)
          /\ dialogs' = b.dialogs \o
               <<Dialog("error", "Las coordenadas del destino no son validas.", "")>>
          /\ figuras' = <<>>
          /\ llamadas' = NoLlamadas
  \/ \E G \in Graphs : \E o, d \in SeqToSet(G.nodes) :
       LET b == construir_grafo_urbano(Provided(G))
           r == ruta_optima_dijkstra(b.Start, o, d)
           m == IF r.tag \in {"None", "Path"}
                THEN arbol_expansion_minima_prim(b.Start) ELSE NoneGraph
       IN /\ RutaLocals(Provided(G), b.Start, o, d, r, m)
          /\ dialogs' = b.dialogs
          /\ figuras' = (IF r.tag = "Path" THEN <<"ruta">> ELSE <<>>)
                          \o (IF Len(m.nodes) > 0 THEN <<"mst">> ELSE <<>>)
          /\ llamadas' = [NoLlamadas EXCEPT
                            !.dijkstra = 1,
                            !.prim = IF r.tag \in {"None", "Path"} THEN 1 ELSE 0]

SerieLocals(prov, S, serie) ==
  /\ handler' = "graficar_resultados"
  /\ proveedor' = prov
  /\ Start' = S
  /\ origen' = 0
  /\ destino' = 0
  /\ ruta' = NoneRuta
  /\ mst' = NoneGraph
  /\ tamanos' = serie.tamanos
  /\ tiempos_dijkstra' = serie.tiempos_dijkstra
  /\ tiempos_prim' = serie.tiempos_prim
  /\ subgrafos' = serie.subgrafos
  /\ medida' = NoMedida
  /\ llamadas' = [dijkstra |-> serie.dijkstra, prim |-> serie.prim,
                  medir |-> serie.medir, funcion |-> 0]
  /\ excepcion' = "ninguna"

\* What graficar_resultados shows for the series it got.
MostrarSerie(serie) ==
  /\ figuras' = IF serie.tamanos # <<>> THEN <<"grafica">> ELSE <<>>

\* graficar_resultados, the handler of "Graficar Resultados".
GraficarResultados(Graphs) ==
  \/ /\ SerieLocals(NoLlamado, NoneGraph, EmptySerie)
     /\ dialogs' = <<Dialog("error", "Debe ingresar una ciudad.", "")>>
     /\ figuras' = <<>>
  \/ \E prov \in {Failed(c) : c \in Causas} \cup {Provided(G) : G \in Graphs} :
     \E td, tp \in 1..MaxTick :
       LET b == construir_grafo_urbano(prov)
           serie == medir_tiempos_de_ejecucion(b.Start, td, tp)
       IN /\ SerieLocals(prov, b.Start, serie)
          /\ MostrarSerie(serie)
          /\ dialogs' = b.dialogs \o
               (IF serie.tamanos # <<>> THEN <<>>
                ELSE <<Dialog("info",
                         "No se encontraron datos suficientes para graficar.", "")>>)

\* A direct call medir_promedio_tiempo(funcion, repeticiones=n), or with
\* the argument omitted; the j-th call of funcion lasts durs[j] ticks.
MedirPromedioTiempo ==
  /\ handler = "none"
  /\ \E omitido \in BOOLEAN : \E n \in (0 - MaxReps)..MaxReps :
    LET reps == IF omitido THEN RepeticionesDefault ELSE n
    IN /\ omitido => n = 0
       /\ \E durs \in [1..RangeLen(0, reps, 1) -> 1..MaxTick] :
            LET m == medir_promedio_tiempo(durs, reps)
            IN /\ handler' = "medir_promedio_tiempo"
               /\ medida' = [status |-> m.status, omitido |-> omitido,
                             repeticiones |-> n, tiempos |-> m.tiempos,
                             suma |-> m.suma, cuenta |-> m.cuenta]
               /\ llamadas' = [NoLlamadas EXCEPT !.medir = 1, !.funcion = m.invocaciones]
               /\ excepcion' = IF m.status = "ok" THEN "ninguna" ELSE m.status
               /\ proveedor' = NoLlamado
               /\ Start' = NoneGraph
               /\ origen' = 0
               /\ destino' = 0
               /\ ruta' = NoneRuta
               /\ mst' = NoneGraph
               /\ tamanos' = <<>>
               /\ tiempos_dijkstra' = <<>>
               /\ tiempos_prim' = <<>>
               /\ subgrafos' = <<>>
               /\ dialogs' = <<>>
               /\ figuras' = <<>>

\* root.mainloop(): the handler has returned, its locals are gone and the
\* window waits for the next click.
Mainloop ==
  /\ handler # "none"
  /\ handler' = "none"
  /\ proveedor' = NoLlamado
  /\ Start' = NoneGraph
  /\ origen' = 0
  /\ destino' = 0
  /\ ruta' = NoneRuta
  /\ mst' = NoneGraph
  /\ tamanos' = <<>>
  /\ tiempos_dijkstra' = <<>>
  /\ tiempos_prim' = <<>>
  /\ subgrafos' = <<>>
  /\ medida' = NoMedida
  /\ dialogs' = <<>>
  /\ figuras' = <<>>
  /\ llamadas' = NoLlamadas
  /\ excepcion' = "ninguna"

\* One handler runs at a time: a click is served when the window is idle.
Idle == handler = "none"

Next ==
  \/ Idle /\ CalcularRuta(SmallGraphs)
  \/ Idle /\ GraficarResultados(BenchStores)
  \/ MedirPromedioTiempo
  \/ Mainloop

Spec == Init /\ [][Next]_vars

(* ------------------------- the chain scenario -------------------------- *)

\* Fifteen nodes: thirteen joined in a chain, two with no edge at all.
\* The links all run forwards, all backwards or both ways, with one
\* length; the first link may be doubled by a parallel edge (key 1); the
\* isolated nodes come last, first or inside the node order.
ChainNodes == <<1, 2, 3, 4, 5, 6, 7, 8, 9, 10, 11, 12, 13>>

IsolatedNodes == <<14, 15>>

ChainOrders ==
  {ChainNodes \o IsolatedNodes, IsolatedNodes \o ChainNodes,
   SubSeq(ChainNodes, 1, 6) \o IsolatedNodes \o SubSeq(ChainNodes, 7, 13)}

ChainEdges(dir, w, doubled) ==
  LET links == 1..(Len(ChainNodes) - 1)
  IN (IF dir \in {"fwd", "both"}
      THEN {<<ChainNodes[k], ChainNodes[k + 1], 0, w>> : k \in links} ELSE {})
     \cup
     (IF dir \in {"back", "both"}
      THEN {<<ChainNodes[k + 1], ChainNodes[k], 0, w>> : k \in links} ELSE {})
     \cup
     (IF doubled
      THEN (IF dir = "back" THEN {<<ChainNodes[2], ChainNodes[1], 1, w + 1>>}
            ELSE {<<ChainNodes[1], ChainNodes[2], 1, w + 1>>})
      ELSE {})

ChainGraphs ==
  {[tag |-> "Graph", nodes |-> ns, edges |-> ChainEdges(dir, w, doubled)] :
     ns \in ChainOrders, dir \in {"fwd", "back", "both"},
     w \in 0..MaxWeight, doubled \in BOOLEAN}

NextChain ==
  \/ Idle /\ CalcularRuta(ChainGraphs)
  \/ Mainloop

SpecChain == Init /\ [][NextChain]_vars

(* ===================== properties of the operations ==================== *)

NodeSet(G) == SeqToSet(G.nodes)

\* The completed invocations the properties speak about.
RutaComputed == handler = "calcular_ruta" /\ llamadas.dijkstra = 1

MstComputed == handler = "calcular_ruta" /\ llamadas.prim = 1

SerieComputed == handler = "graficar_resultados" /\ proveedor.estado = "ok"

ProviderFailed == proveedor.estado = "DataUnavailable"

\* Brute force: every node sequence of length <= |nodes| from o to d whose
\* consecutive nodes are joined by a directed edge.
IsWalk(G, p) ==
  \A i \in 1..(Len(p) - 1) : \E e \in G.edges : e[1] = p[i] /\ e[2] = p[i + 1]

Walks(G, o, d) ==
  {p \in UNION {[1..n -> NodeSet(G)] : n \in 1..Len(G.nodes)} :
     p[1] = o /\ p[Len(p)] = d /\ IsWalk(G, p)}

\* Sum of the edge weights along p; between two nodes joined by parallel
\* edges the lightest one is traversed.
WalkWeight(G, p) ==
  SumSeq([i \in 1..(Len(p) - 1) |->
            SetMin({e[4] : e \in {x \in G.edges : x[1] = p[i] /\ x[2] = p[i + 1]}})])

\* Connected components of the nodes N under the edges E, direction ignored.
RECURSIVE Grow(_, _)
Grow(E, S) ==
  LET T == S \cup {e[2] : e \in {x \in E : x[1] \in S}}
               \cup {e[1] : e \in {x \in E : x[2] \in S}}
  IN IF T = S THEN S ELSE Grow(E, T)

ComponentsOf(N, E) == {Grow(E, {n}) : n \in N}

Components(G) == ComponentsOf(NodeSet(G), G.edges)

ProjectionConnected(G) == Cardinality(Components(G)) = 1

RECURSIVE TotalWeight(_)
TotalWeight(E) ==
  IF E = {} THEN 0 ELSE LET e == CHOOSE x \in E : TRUE IN e[4] + TotalWeight(E \ {e})

\* The undirected projection as the specification defines it: one edge
\* per unordered pair of joined nodes, with the smallest weight found
\* between the two in either direction.
PairMin(G, u, v) ==
  SetMin({e[4] : e \in {x \in G.edges : {x[1], x[2]} = {u, v}}})

ProjectionByMinimum(G) ==
  {<<p[1], p[2], 0, PairMin(G, p[1], p[2])>> :
     p \in {q \in NodeSet(G) \X NodeSet(G) :
              /\ Pos(G, q[1]) < Pos(G, q[2])
              /\ \E e \in G.edges : {e[1], e[2]} = {q[1], q[2]}}}

SpanningTrees(N, E) ==
  {T \in SUBSET E : Cardinality(T) = Cardinality(N) - 1
                    /\ Cardinality(ComponentsOf(N, T)) = 1}

MinSpanningWeight(N, E) == SetMin({TotalWeight(T) : T \in SpanningTrees(N, E)})

Acyclic(N, T) == Cardinality(T) = Cardinality(N) - Cardinality(ComponentsOf(N, T))

TouchesEveryNode(N, T) ==
  Cardinality(N) > 1 => \A n \in N : \E e \in T : n \in {e[1], e[2]}

BothDirections(G, u, v) ==
  /\ \E e \in G.edges : e[1] = u /\ e[2] = v
  /\ \E e \in G.edges : e[1] = v /\ e[2] = u

(* C1: a path returned by ruta_optima_dijkstra starts at the origin, ends  *)
(* at the destination, follows directed edges of the graph, and its total  *)
(* weight is the minimum over all directed origin-to-destination walks.    *)
C1_ShortestPathIsMinimal ==
  (RutaComputed /\ ruta.tag = "Path") =>
     /\ Len(ruta.nodes) >= 1
     /\ ruta.nodes[1] = origen
     /\ ruta.nodes[Len(ruta.nodes)] = destino
     /\ IsWalk(Start, ruta.nodes)
     /\ WalkWeight(Start, ruta.nodes)
          = SetMin({WalkWeight(Start, p) : p \in Walks(Start, origen, destino)})

\* A route through an intermediate node that beats a direct edge.
C1_Witness ==
  /\ RutaComputed
  /\ ruta.tag = "Path"
  /\ Len(ruta.nodes) = 3
  /\ \E e \in Start.edges :
       e[1] = origen /\ e[2] = destino /\ e[4] > WalkWeight(Start, ruta.nodes)

(* C2: when no directed path leads from origin to destination,             *)
(* ruta_optima_dijkstra returns None without raising, and it returns None  *)
(* only then: whenever a directed path exists it returns a path.           *)
C2_NoneIffNoDirectedPath ==
  RutaComputed =>
     /\ excepcion = "ninguna"
     /\ ruta.tag \in {"None", "Path"}
     /\ ruta.tag = "None" <=> Walks(Start, origen, destino) = {}

\* None although the destination is joined to the origin against the
\* direction of travel.
C2_Witness ==
  /\ RutaComputed
  /\ ruta.tag = "None"
  /\ excepcion = "ninguna"
  /\ \E e \in Start.edges : e[1] = destino /\ e[2] = origen

(* C3: for a graph whose undirected projection is connected,               *)
(* arbol_expansion_minima_prim returns |nodes| - 1 edges without a cycle   *)
(* that touch every node, and their total weight is the minimum over all   *)
(* spanning trees of the undirected projection (the smaller weight kept    *)
(* where both directions exist).                                           *)
C3_MinimumSpanningTree ==
  (MstComputed /\ ProjectionConnected(Start)) =>
     /\ Cardinality(mst.edges) = Len(Start.nodes) - 1
     /\ Acyclic(NodeSet(Start), mst.edges)
     /\ TouchesEveryNode(NodeSet(Start), mst.edges)
     /\ TotalWeight(mst.edges)
          = MinSpanningWeight(NodeSet(Start), ProjectionByMinimum(Start))

\* What does hold of the tree on a connected projection: its shape, and
\* minimality among the spanning trees of the projection to_undirected
\* computes.
MstMinimalForComputedProjection ==
  (MstComputed /\ ProjectionConnected(Start)) =>
     /\ Cardinality(mst.edges) = Len(Start.nodes) - 1
     /\ Acyclic(NodeSet(Start), mst.edges)
     /\ TouchesEveryNode(NodeSet(Start), mst.edges)
     /\ mst.edges \subseteq to_undirected(Start).edges
     /\ TotalWeight(mst.edges)
          = MinSpanningWeight(NodeSet(Start), to_undirected(Start).edges)

(* C4: for a graph whose undirected projection is disconnected,            *)
(* arbol_expansion_minima_prim does not fail and returns a forest of       *)
(* |nodes| - (number of connected components) edges, each component        *)
(* contributing a spanning tree of itself.                                 *)
C4_ForestOnDisconnected ==
  (MstComputed /\ ~ProjectionConnected(Start)) =>
     /\ mst.tag = "Graph"
     /\ excepcion = "ninguna"
     /\ NodeSet(mst) = NodeSet(Start)
     /\ Cardinality(mst.edges)
          = Len(Start.nodes) - Cardinality(Components(Start))
     /\ \A e \in mst.edges :
          \E x \in Start.edges : {x[1], x[2]} = {e[1], e[2]} /\ x[3] = e[3]
     /\ \A C \in Components(Start) :
          LET T == {e \in mst.edges : e[1] \in C /\ e[2] \in C}
          IN /\ Cardinality(T) = Cardinality(C) - 1
             /\ Cardinality(ComponentsOf(C, T)) = 1

\* Two components, one of them with parallel edges to choose from.
C4_Witness ==
  /\ MstComputed
  /\ Cardinality(Components(Start)) = 2
  /\ Cardinality(Start.edges) = 3
  /\ Cardinality(mst.edges) = 1

(* C5: on the graph of 15 nodes, 13 joined by a chain and 2 isolated,      *)
(* arbol_expansion_minima_prim returns a forest with 13 edges (as stated). *)
ChainScenario(G) ==
  /\ Len(G.nodes) = 15
  /\ Cardinality({n \in NodeSet(G) : Grow(G.edges, {n}) = {n}}) = 2
  /\ Cardinality({n \in NodeSet(G) : Cardinality(Grow(G.edges, {n})) = 13}) = 13

C5_ChainForestHas13Edges ==
  (MstComputed /\ ChainScenario(Start)) => Cardinality(mst.edges) = 13

(* C5, amended: on that graph the forest has 12 edges, the 12 links of the *)
(* chain; the isolated nodes contribute none.                              *)
C5_ChainForestHas12Edges ==
  (MstComputed /\ ChainScenario(Start)) =>
     /\ mst.tag = "Graph"
     /\ Cardinality(mst.edges) = 12
     /\ Cardinality(ComponentsOf(NodeSet(mst), mst.edges)) = 3

\* The scenario with a doubled first link, so that the tree has to leave
\* an edge out.
C5_Witness ==
  /\ MstComputed
  /\ ChainScenario(Start)
  /\ Cardinality(Start.edges) > 12
  /\ Cardinality(mst.edges) = 12

(* C6: the projection computed from the directed graph keeps, for every    *)
(* pair of nodes with edges in both directions, the smaller weight; a      *)
(* pair joined in one direction only keeps that edge's weight; the tree    *)
(* never uses the larger weight of a pair.                                 *)
C6_ProjectionKeepsSmallerWeight ==
  MstComputed =>
     LET U == to_undirected(Start)
     IN /\ \A u, v \in NodeSet(Start) :
             BothDirections(Start, u, v) =>
               SetMin({e[4] : e \in {x \in U.edges : {x[1], x[2]} = {u, v}}})
                 = PairMin(Start, u, v)
        /\ \A u, v \in NodeSet(Start) :
             (u # v /\ ~BothDirections(Start, u, v)) =>
               {<<e[3], e[4]>> : e \in {x \in U.edges : {x[1], x[2]} = {u, v}}}
                 = {<<e[3], e[4]>> : e \in {x \in Start.edges : {x[1], x[2]} = {u, v}}}
        /\ \A e \in mst.edges :
             BothDirections(Start, e[1], e[2]) => e[4] = PairMin(Start, e[1], e[2])

(* C7: for a store of N nodes the sizes returned by                        *)
(* medir_tiempos_de_ejecucion are exactly the multiples of 10 from 10 up   *)
(* to min(99, N - 1), increasing; each size is the node count of the       *)
(* sub-store of the first that-many nodes; the three sequences have the    *)
(* same length.                                                            *)
C7_SizesAreMultiplesOfTen ==
  SerieComputed =>
     LET N == Len(Start.nodes)
     IN /\ SeqToSet(tamanos) = {m \in 10..99 : m % 10 = 0 /\ m <= N - 1}
        /\ \A k \in 1..(Len(tamanos) - 1) : tamanos[k] < tamanos[k + 1]
        /\ Len(subgrafos) = Len(tamanos)
        /\ \A k \in 1..Len(tamanos) :
             /\ subgrafos[k] = SubSeq(Start.nodes, 1, tamanos[k])
             /\ Cardinality(SeqToSet(subgrafos[k])) = tamanos[k]
        /\ Len(tiempos_dijkstra) = Len(tamanos)
        /\ Len(tiempos_prim) = Len(tamanos)

\* A store of more than 100 nodes: the nine sizes 10..90.
C7_Witness ==
  /\ SerieComputed
  /\ Len(Start.nodes) > 100
  /\ tamanos = <<10, 20, 30, 40, 50, 60, 70, 80, 90>>

(* C8: on a store with fewer than 12 nodes medir_tiempos_de_ejecucion      *)
(* returns three empty sequences as a normal result (as stated).           *)
C8_EmptyBelow12Nodes ==
  (SerieComputed /\ Len(Start.nodes) < 12) =>
     /\ tamanos = <<>> /\ tiempos_dijkstra = <<>> /\ tiempos_prim = <<>>
     /\ excepcion = "ninguna"

(* C8, amended: on a store with fewer than 11 nodes (8, for one) the three *)
(* sequences are empty, nothing is measured and nothing is raised; with 11 *)
(* nodes the series has the one size 10.                                   *)
C8_EmptyBelow11Nodes ==
  /\ (SerieComputed /\ Len(Start.nodes) < 11) =>
        /\ tamanos = <<>> /\ tiempos_dijkstra = <<>> /\ tiempos_prim = <<>>
        /\ excepcion = "ninguna"
        /\ llamadas = NoLlamadas
        /\ figuras = <<>>
  /\ (SerieComputed /\ Len(Start.nodes) = 11) => tamanos = <<10>>

\* The store of 8 nodes.
C8_Witness ==
  /\ SerieComputed
  /\ Len(Start.nodes) = 8
  /\ tamanos = <<>> /\ tiempos_dijkstra = <<>> /\ tiempos_prim = <<>>

(* C9: medir_promedio_tiempo with repetitions >= 1 calls the operation     *)
(* exactly that many times (5 when omitted) and returns a value; with      *)
(* repetitions < 1 it fails with InvalidRepetitionCount, without calling   *)
(* the operation and without returning a value.                            *)
Repeticiones == IF medida.omitido THEN 5 ELSE medida.repeticiones

C9_InvalidRepetitionCount ==
  handler = "medir_promedio_tiempo" =>
     /\ Repeticiones >= 1 =>
          /\ llamadas.funcion = Repeticiones
          /\ medida.status = "ok"
          /\ excepcion = "ninguna"
     /\ Repeticiones < 1 =>
          /\ llamadas.funcion = 0
          /\ medida.status # "ok"
          /\ excepcion = "InvalidRepetitionCount"

(* C10: when the provider cannot supply a graph, the failure reaches the   *)
(* caller of the handlers as DataUnavailable with its cause, is not turned *)
(* into a normal result such as an empty series, and no shortest-path,     *)
(* spanning-tree or measurement operation is invoked (as stated).          *)
C10_FailurePassedThrough ==
  ProviderFailed =>
     /\ excepcion = "DataUnavailable"
     /\ llamadas = NoLlamadas

(* C10, amended: the failure is caught where the graph is built: one error *)
(* dialog carrying the cause is shown and None is returned.  Nothing is    *)
(* raised to the caller; graficar_resultados gets three empty sequences    *)
(* and reports insufficient data, calcular_ruta returns without a route or *)
(* a tree; no shortest-path, spanning-tree or measurement operation is     *)
(* invoked.                                                                *)
C10_FailureBecomesNone ==
  ProviderFailed =>
     /\ Start = NoneGraph
     /\ excepcion = "ninguna"
     /\ Len(dialogs) >= 1
     /\ dialogs[1].tipo = "error"
     /\ dialogs[1].causa = proveedor.causa
     /\ llamadas = NoLlamadas
     /\ figuras = <<>>
     /\ ruta = NoneRuta /\ mst = NoneGraph
     /\ tamanos = <<>> /\ tiempos_dijkstra = <<>> /\ tiempos_prim = <<>>
     /\ handler = "graficar_resultados" =>
          /\ Len(dialogs) = 2
          /\ dialogs[2].tipo = "info"
     /\ handler = "calcular_ruta" => Len(dialogs) = 1

\* The benchmark handler after a failed provider call.
C10_Witness ==
  /\ ProviderFailed
  /\ handler = "graficar_resultados"
  /\ proveedor.causa = "connection error"
  /\ tamanos = <<>>

====
